---- MODULE Spec2Model ----
(***************************************************************************)
(* Task lifecycle of the agent orchestrator: the execute endpoint, the     *)
(* job queue, and the worker's _process_task_async with every awaited      *)
(* call as one step.  Every external call (repository, model service,      *)
(* search provider, event transport) either answers or raises.             *)
(***************************************************************************)
EXTENDS Integers, Sequences, FiniteSets, TLC

\* ------------------------------------------------------------------ bounds
\* jobs the broker hands out in one behaviour
MaxDeliveries == 2
\* external calls that raise in one behaviour
MaxFaults == 1
\* process_task invocations one worker process makes, and the steps one
\* invocation's coroutine takes on the loop
MaxInvocations == 3
MaxSteps == 2
\* the largest per-minute limit configured, and the minutes the clock
\* passes through
MaxLimit == 2
\* the requests followed through the rate limiter
MaxRequests == 3
\* the events published on the bus
MaxEvents == 4
\* the readings of the clock, and the deliveries of a task's job
MaxClock == 3
MaxRuns == 2
MaxBuckets == 2

\* ------------------------------------------------------------- identities
\* the task ids uuid4 hands out
TaskIds == {"t1"}
\* an id no execute request ever created (a job whose task is missing)
UnknownId == "t0"
JobIds == TaskIds \cup {UnknownId}
\* two worker processes consuming the same queue
Workers == {"w1", "w2"}

\* ------------------------------------------------------------ task record
Null == "null"
QUEUED == "queued"
PROCESSING == "processing"
COMPLETED == "completed"
FAILED == "failed"
Terminal == {COMPLETED, FAILED}

NoError == [type |-> Null, stack |-> FALSE]

\* find_one returning no document
NoTask ==
    [status |-> "absent", selected_agent |-> Null, started_at |-> FALSE,
     completed_at |-> FALSE, error |-> NoError, result |-> Null, cost |-> Null]

\* the document TaskRepository.create inserts
NewTaskDoc ==
    [status |-> QUEUED, selected_agent |-> Null, started_at |-> FALSE,
     completed_at |-> FALSE, error |-> NoError, result |-> Null, cost |-> Null]

\* TaskRepository.update: $set of exactly the fields the TaskUpdate sets
\* (model_dump(exclude_unset=True)); a missing document is left missing.
TaskRepository_update(doc, upd) ==
    IF doc = NoTask THEN doc
    ELSE [f \in DOMAIN doc |-> IF f \in DOMAIN upd THEN upd[f] ELSE doc[f]]

\* the TaskUpdate of TaskService.mark_processing
ProcessingUpdate == [status |-> PROCESSING, started_at |-> TRUE]

\* the TaskUpdate of TaskService.mark_completed (cost is built from the
\* prompt_tokens=0, completion_tokens=0 the worker passes)
CompletedUpdate(agent, content) ==
    [status |-> COMPLETED, selected_agent |-> agent, completed_at |-> TRUE,
     result |-> content, cost |-> "zero"]

\* the TaskUpdate of TaskService.mark_failed
FailedUpdate(etype, stack) ==
    [status |-> FAILED, error |-> [type |-> etype, stack |-> stack],
     completed_at |-> TRUE]

\* ----------------------------------------------------------------- events
\* One entry per _publish_event call: the status of the payload, who made
\* the call (the worker process, or "api" for the execute request), and
\* whether the transport delivered it to the channel.
Event(status, by, ok) == [status |-> status, by |-> by, ok |-> ok]

\* TaskService._publish_event: the publish is wrapped in try/except
\* Exception, so a transport failure is logged and nothing is raised.
PublishRaisesLeak(ok) == ~ok
PublishRaises(ok) == FALSE

\* what subscribers of the channel can have received
Published(evs) == SelectSeq(evs, LAMBDA e : e.ok)
Statuses(evs) == [i \in 1..Len(evs) |-> evs[i].status]

VARIABLES
    tasks,        \* tasks collection: JobIds -> document or NoTask
    events,       \* per task channel: the _publish_event calls, in order
    agent_runs,   \* agent_runs collection: number of router runs per task
    messages,     \* messages collection: per task, count per role
    last_task_id, \* the session document's last_task_id
    queue,        \* jobs waiting in the broker, per task id
    deliveries,   \* number of jobs handed to workers so far
    pc,           \* per worker: the await the invocation is suspended at
    tid,          \* per worker: the task_id argument
    task,         \* per worker: status of the Task get_task read (no step reads
                  \* it; kept until mark_processing has run)
    cls,          \* per worker: agent_name of the accepted TaskClassification
    out,          \* per worker: the AgentOutput content
    exc,          \* per worker: the exception being handled
    faults,       \* external calls that have raised so far
    api,          \* the execute request in flight: the await it is at
    req,          \* the task id the request in flight generated
    run,          \* one run_peer_agent call followed step by step (RunSpec)
    proc,         \* one worker process: its cached event loop and its
                  \* process_task invocations (ProcSpec)
    limiter,      \* the rate limiter and the requests passing it (RateSpec)
    bus,          \* the event channels and one SSE subscriber (BusSpec)
    repo          \* the tasks collection with its documents in full and a
                  \* clock (StoreSpec)

vars == <<tasks, events, agent_runs, messages, last_task_id, queue, deliveries,
          pc, tid, task, cls, out, exc, faults, api, req, run,
          proc, limiter, bus, repo>>

repoVars == <<tasks, agent_runs, messages, last_task_id>>
localVars == <<tid, task, cls, out, exc>>
apiVars == <<api, req>>
\* the variables of the specifications of single components
sideVars == <<proc, limiter, bus, repo>>

NoClass == [agent_name |-> Null, confidence |-> 0]

\* ---------------------------------------------------- texts, plans, usage
\* A text is the sequence of its lines (the text is the lines joined by
\* "\n").  A line is plain text or an entry of the references list.
Line(text) == [text |-> text, index |-> 0, url |-> "", title |-> ""]
RefLine(index, url, title) ==
    [text |-> "- [n] <a>", index |-> index, url |-> url, title |-> title]
EmptyText == <<Line("")>>

\* LLMUsage / TaskCost token counts
Usage(p, c) == [prompt_tokens |-> p, completion_tokens |-> c, total_tokens |-> p + c]
NoUsage == Usage(0, 0)

\* CodeTaskPlan
NoPlan == [language |-> Null, tests_required |-> FALSE, fallback |-> FALSE]

\* GeneratedCodeArtifact
NoArtifact == [language |-> Null, description |-> Null, code |-> Null]

NoReply == [kind |-> "none", agent_name |-> Null, conf_kind |-> "missing", confidence |-> 0]

\* AgentOutput
NoOutput == [agent_name |-> Null, content |-> <<>>, code_language |-> Null,
             citations |-> <<>>]

\* ------------------------------------------------------ worker process
\* one worker process before its first invocation: no loop cached
\* (_loop = None is 0; loops are numbered from 1 as they are created)
NoProc == [loop |-> 0, closed |-> {}, created |-> 0, calls |-> <<>>, ran |-> <<>>]

\* -------------------------------------------------------- rate limiter
\* the requests followed through RateLimiterMiddleware.dispatch and the
\* clients sending them: the peer address and the X-API-Key header ("" when
\* the header is absent)
ReqIds == 1..MaxRequests
Clients == {[ip |-> "a", api_key |-> ""],
            [ip |-> "a", api_key |-> "k1"],
            [ip |-> "b", api_key |-> "k1"]}
Environments == {"test", "production"}
Buckets == 1..MaxBuckets

\* _build_key: the API key when one was sent, the peer address otherwise
_build_key(client_ip, api_key) ==
    IF api_key # "" THEN <<"key", api_key>> ELSE <<"ip", client_ip>>
LimiterKeys == {_build_key(c.ip, c.api_key) : c \in Clients}

NoKey == <<"none", "">>
\* a request dispatch has not seen yet; remaining is the
\* X-RateLimit-Remaining header of its response, -1 when there is none
NewRequest == [pc |-> "new", key |-> NoKey, bucket |-> 0, current |-> 0,
               fault |-> "none", outcome |-> "none", remaining |-> -1]

\* the limiter before the process has read its settings; counters are the
\* backend's keys rl:{minute_bucket}:{key}, minute the clock's current
\* minute
NoLimiter == [environment |-> "unset", api_rate_limit_per_minute |-> 0,
              minute |-> 1,
              counters |-> [b \in Buckets |-> [k \in LimiterKeys |-> 0]],
              reqs |-> [r \in ReqIds |-> NewRequest]]

\* ------------------------------------------------------------ event bus
\* the task ids events are published for and streamed of
BusTaskIds == {"t1", "t2"}
NoChannel == <<"none", "">>
\* the bus before anything was published, and one SSE request not yet
\* made.  published is every message the bus accepted, in order, failed
\* the number of publish calls that raised; of the
\* subscriber: since is the number of messages published when it
\* subscribed, inbox what the bus has sent to its connection and
\* get_message has not returned yet, received the messages yielded to the
\* client, gone whether the client has disconnected.
NoBus == [published |-> <<>>, failed |-> 0,
          sub |-> [state |-> "new", channel |-> NoChannel, since |-> 0,
                   inbox |-> <<>>, received |-> <<>>, gone |-> FALSE]]

\* ------------------------------------------------------ tasks collection
\* The tasks collection with its documents field by field.  A timestamp is
\* the clock's reading when utc_now() was called; 0 is None.
Texts == {"blog yaz", " kod yaz "}
Sessions == {"s1", "s2"}

\* find_one returning no document / get_by_task_id returning None
NoDocument ==
    [id |-> Null, task_id |-> Null, session_id |-> Null, input_text |-> Null,
     status |-> "absent", selected_agent |-> Null,
     created_at |-> 0, updated_at |-> 0, queued_at |-> 0,
     started_at |-> 0, completed_at |-> 0, error |-> Null, result |-> Null]
None == [task_id |-> Null]

\* the collection before any request, the clock at its first reading;
\* created is what the last create_task was given and returned, got what
\* the last get_task was asked and returned, runs the position of each
\* _process_task_async invocation made for the task's job
NoRepo == [now |-> 1,
           docs |-> [t \in JobIds |-> NoDocument],
           created |-> [text |-> Null, session |-> Null, task |-> None],
           got |-> [asked |-> Null, task |-> None],
           runs |-> <<>>]


\* the state of one run_peer_agent call and of what the worker records
\* for it
NoRun ==
    [node |-> "idle",
     reply |-> NoReply,              \* what the router's chat call answered
     classification |-> NoClass,     \* TaskClassification
     agent_runs |-> 0,               \* AgentRun documents inserted
     llm_calls |-> 0,                \* Model Service calls that answered
     chats |-> <<>>,                 \* the llm.chat calls made: node, answered
     handler |-> Null,               \* the agent whose run() was called
     search |-> "none",              \* outcome of the web search
     citations |-> <<>>,
     content |-> <<>>,               \* the content model's text
     plan_reply |-> "none",          \* kind of the planner's reply
     plan |-> NoPlan,
     generated |-> NoArtifact,       \* GeneratedCodeArtifact
     generate_calls |-> 0,           \* generation chat calls made
     usage |-> NoUsage,              \* summed usage of the handler's calls
     output |-> NoOutput,
     exc |-> Null,                   \* exception seen by _process_task_async
     status |-> PROCESSING,          \* status the worker writes
     selected_agent |-> Null,        \* selected_agent the worker writes
     error_type |-> Null,
     cost |-> NoUsage]

Init ==
    /\ tasks = [t \in JobIds |-> NoTask]
    /\ events = [t \in JobIds |-> <<>>]
    /\ agent_runs = [t \in JobIds |-> 0]
    /\ messages = [t \in JobIds |-> [user |-> 0, assistant |-> 0]]
    /\ last_task_id = UnknownId
    \* one stale job whose task is not in the repository
    /\ queue = [t \in JobIds |-> IF t = UnknownId THEN 1 ELSE 0]
    /\ deliveries = 0
    /\ pc = [w \in Workers |-> "idle"]
    /\ tid = [w \in Workers |-> UnknownId]
    /\ task = [w \in Workers |-> "absent"]
    /\ cls = [w \in Workers |-> Null]
    /\ out = [w \in Workers |-> Null]
    /\ exc = [w \in Workers |-> Null]
    /\ faults = 0
    /\ api = "idle"
    /\ req = UnknownId
    /\ run = NoRun
    /\ proc = NoProc
    /\ limiter = NoLimiter
    /\ bus = NoBus
    /\ repo = NoRepo

\* ------------------------------------------------------------ the endpoint
\* an awaited external call: it answers (ok) or raises; at most MaxFaults
\* calls raise in one behaviour
Call(ok) == /\ ok \/ faults < MaxFaults
            /\ faults' = IF ok THEN faults ELSE faults + 1

\* uuid4: an id no task has yet
FreshId(t) == tasks[t] = NoTask

\* the endpoint between two requests: no request yet, or the last one was
\* answered 422 (rejected), by an exception handler (failed), or with
\* ExecuteTaskResponse(task_id = req, status = queued) (responded)
Resting == {"idle", "rejected", "failed", "responded"}

\* POST /v1/agent/execute, one awaited call per step; a call that raises
\* ends the request (the exception handlers answer it).
\* A blank task is rejected with 422 before anything is called.
execute_task(t, blank) ==
    /\ api \in Resting
    /\ blank \/ FreshId(t)
    /\ api' = IF blank THEN "rejected" ELSE "ensure_session"
    /\ req' = IF blank THEN req ELSE t
    /\ UNCHANGED <<run, sideVars, repoVars, events, queue, deliveries, pc, localVars, faults>>

\* session_service.ensure_session
EnsureSession(ok) ==
    /\ api = "ensure_session"
    /\ Call(ok)
    /\ api' = IF ok THEN "create" ELSE "failed"
    /\ UNCHANGED <<run, sideVars, repoVars, events, queue, deliveries, pc, localVars, req>>

\* create_task: tasks_repo.create
CreateTask(ok) ==
    /\ api = "create"
    /\ Call(ok)
    /\ tasks' = IF ok THEN [tasks EXCEPT ![req] = NewTaskDoc] ELSE tasks
    /\ api' = IF ok THEN "user_message" ELSE "failed"
    /\ UNCHANGED <<run, sideVars, agent_runs, messages, last_task_id, events, queue, deliveries,
                   pc, localVars, req>>

CreateMessageNoPublish(ok) ==
    /\ api = "user_message"
    /\ Call(ok)
    /\ messages' = IF ok THEN [messages EXCEPT ![req].user = @ + 1] ELSE messages
    /\ api' = IF ok THEN "last_task" ELSE "failed"
    /\ UNCHANGED <<run, sideVars, tasks, agent_runs, last_task_id, events, queue, deliveries,
                   pc, localVars, req>>

\* create_task: messages_repo.create of the user message
CreateMessage(ok) ==
    /\ api = "user_message"
    /\ Call(ok)
    /\ messages' = IF ok THEN [messages EXCEPT ![req].user = @ + 1] ELSE messages
    /\ api' = IF ok THEN "publish" ELSE "failed"
    /\ UNCHANGED <<run, sideVars, tasks, agent_runs, last_task_id, events, queue, deliveries,
                   pc, localVars, req>>

\* create_task: _publish_event(queued)
PublishQueued(ok) ==
    /\ api = "publish"
    /\ Call(ok)
    /\ events' = [events EXCEPT ![req] = Append(@, Event(QUEUED, "api", ok))]
    /\ api' = IF PublishRaises(ok) THEN "failed" ELSE "last_task"
    /\ UNCHANGED <<run, sideVars, repoVars, queue, deliveries, pc, localVars, req>>

\* session_service.update_last_task
UpdateLastTask(ok) ==
    /\ api = "last_task"
    /\ Call(ok)
    /\ last_task_id' = IF ok THEN req ELSE last_task_id
    /\ api' = IF ok THEN "delay" ELSE "failed"
    /\ UNCHANGED <<run, sideVars, tasks, agent_runs, messages, events, queue, deliveries,
                   pc, localVars, req>>

\* process_task.delay(task.task_id); then the response (status queued)
Enqueue(ok) ==
    /\ api = "delay"
    /\ Call(ok)
    /\ queue' = IF ok THEN [queue EXCEPT ![req] = @ + 1] ELSE queue
    /\ api' = IF ok THEN "responded" ELSE "failed"
    /\ UNCHANGED <<run, sideVars, repoVars, events, deliveries, pc, localVars, req>>

\* --------------------------------------------------------------- the queue
\* The broker hands a job to an idle worker (the workers are alike: the
\* first idle one).  task_acks_late: the job stays in the broker until the
\* invocation has ended, so it can be handed out again meanwhile
\* (at-least-once delivery).
Deliver(w, t) ==
    /\ pc[w] = "idle"
    /\ w = "w1" \/ pc["w1"] # "idle"
    /\ queue[t] > 0
    /\ deliveries < MaxDeliveries
    /\ deliveries' = deliveries + 1
    /\ pc' = [pc EXCEPT ![w] = "get_task"]
    /\ tid' = [tid EXCEPT ![w] = t]
    /\ UNCHANGED <<run, sideVars, apiVars, repoVars, events, queue, faults, task, cls, out, exc>>

\* The invocation has ended (returned, or raised to run_worker_coroutine,
\* which re-raises): the job is acknowledged.
Ack(w) ==
    /\ pc[w] \in {"returned", "raised"}
    /\ pc' = [pc EXCEPT ![w] = "idle"]
    /\ queue' = [queue EXCEPT ![tid[w]] = 0]
    /\ tid' = [tid EXCEPT ![w] = UnknownId]
    /\ task' = [task EXCEPT ![w] = "absent"]
    /\ cls' = [cls EXCEPT ![w] = Null]
    /\ out' = [out EXCEPT ![w] = Null]
    /\ exc' = [exc EXCEPT ![w] = Null]
    /\ UNCHANGED <<run, sideVars, apiVars, repoVars, events, deliveries, faults>>

\* -------------------------------------------------- _process_task_async
\* tasks_repo.update is update_one followed by a read-back (find_one):
\* either can raise, the second one after the document has been written.
UpdateResults == {"ok", "raise_before", "raise_after"}
WrittenOnReadFailure(res) == res = "raise_after"
Written(res) == res # "raise_before"

Goto(w, p) == pc' = [pc EXCEPT ![w] = p]
Raise(w, e, p) == /\ exc' = [exc EXCEPT ![w] = e]
                  /\ pc' = [pc EXCEPT ![w] = p]
Publish(w, status, ok) ==
    events' = [events EXCEPT ![tid[w]] = Append(@, Event(status, w, ok))]
Update(w, upd) ==
    tasks' = [tasks EXCEPT ![tid[w]] = TaskRepository_update(@, upd)]

GetTaskUnchecked(w, ok) ==
    /\ pc[w] = "get_task"
    /\ Call(ok)
    /\ IF ~ok THEN /\ Goto(w, "raised")
                   /\ UNCHANGED task
       ELSE /\ task' = [task EXCEPT ![w] = tasks[tid[w]].status]
            /\ Goto(w, "mp_update")
    /\ UNCHANGED <<run, sideVars, apiVars, repoVars, events, queue, deliveries, tid, cls, out, exc>>

\* task = await task_service.get_task(task_id); if not task: return
GetTask(w, ok) ==
    /\ pc[w] = "get_task"
    /\ Call(ok)
    /\ IF ~ok THEN /\ Goto(w, "raised")
                   /\ UNCHANGED task
       ELSE /\ task' = [task EXCEPT ![w] = tasks[tid[w]].status]
            /\ Goto(w, IF tasks[tid[w]] = NoTask THEN "returned" ELSE "mp_update")
    /\ UNCHANGED <<run, sideVars, apiVars, repoVars, events, queue, deliveries, tid, cls, out, exc>>

\* mark_processing: tasks_repo.update(status=processing, started_at);
\* outside the try block, so a raise leaves _process_task_async
MpUpdate(w, res) ==
    /\ pc[w] = "mp_update"
    /\ Call(res = "ok")
    /\ IF Written(res) THEN Update(w, ProcessingUpdate) ELSE UNCHANGED tasks
    /\ Goto(w, IF res # "ok" THEN "raised"
               ELSE IF tasks[tid[w]] = NoTask THEN "classify" ELSE "mp_publish")
    /\ task' = [task EXCEPT ![w] = "absent"]
    /\ UNCHANGED <<run, sideVars, apiVars, agent_runs, messages, last_task_id, events, queue, deliveries,
                   tid, cls, out, exc>>

\* mark_processing: _publish_event(processing)
MpPublish(w, ok) ==
    /\ pc[w] = "mp_publish"
    /\ Call(ok)
    /\ Publish(w, PROCESSING, ok)
    /\ Goto(w, IF PublishRaises(ok) THEN "raised" ELSE "classify")
    /\ UNCHANGED <<run, sideVars, apiVars, repoVars, queue, deliveries, localVars>>

\* ------------------------------------------------------------- the router
ConfidenceGate == 600     \* 0.6, in thousandths
KnownAgents == {"ContentAgent", "CodeAgent"}

\* What the model service can answer to the routing prompt: text that is
\* not JSON, JSON that is no object, or an object whose agent_name is a
\* string or missing/null and whose confidence is a number (thousandths),
\* missing/null, a numeric string or another string.
RouterReplies ==
    {[kind |-> "text", agent_name |-> Null, conf_kind |-> "missing", confidence |-> 0],
     [kind |-> "array", agent_name |-> Null, conf_kind |-> "missing", confidence |-> 0]}
    \cup [kind : {"object"},
          agent_name : {"ContentAgent", "CodeAgent", "Unknown", Null},
          conf_kind : {"number"},
          confidence : {0, 599, 600, 950}]
    \cup [kind : {"object"},
          agent_name : {"ContentAgent", "Unknown"},
          conf_kind : {"missing", "numeric_string", "text"},
          confidence : {950}]

ParseClassificationDefaulting(r) ==
    IF r.kind = "text" THEN [err |-> "UNKNOWN_TASK_TYPE", cls |-> NoClass]
    ELSE IF r.kind # "object" THEN [err |-> "LLMError", cls |-> NoClass]
    ELSE IF r.conf_kind = "text" THEN [err |-> "LLMError", cls |-> NoClass]
    ELSE [err |-> Null,
          cls |-> [agent_name |-> IF r.agent_name = Null THEN "ContentAgent"
                                  ELSE r.agent_name,
                   confidence |-> IF r.conf_kind = "missing" THEN 1000
                                  ELSE r.confidence]]

\* _classify_task_node after the chat call: json.loads, then the coercions
\*   str(payload.get("agent_name") or "Unknown"),
\*   float(payload.get("confidence") or 0.0).
\* err is the exception as _process_task_async sees it (run_peer_agent
\* re-raises UnknownTaskTypeError and wraps anything else in LLMError).
ParseClassification(r) ==
    IF r.kind = "text" THEN [err |-> "UNKNOWN_TASK_TYPE", cls |-> NoClass]
    ELSE IF r.kind # "object" THEN [err |-> "LLMError", cls |-> NoClass]
    ELSE IF r.conf_kind = "text" THEN [err |-> "LLMError", cls |-> NoClass]
    ELSE [err |-> Null,
          cls |-> [agent_name |-> IF r.agent_name = Null THEN "Unknown"
                                  ELSE r.agent_name,
                   confidence |-> IF r.conf_kind = "missing" THEN 0
                                  ELSE r.confidence]]

RouteAcceptsAbove(c) ==
    /\ c.agent_name \in KnownAgents
    /\ c.confidence > ConfidenceGate
RouteAcceptsAnyName(c) == ~(c.confidence < ConfidenceGate)

\* _route_to_agent_node
RouteAccepts(c) ==
    /\ c.agent_name \in KnownAgents
    /\ ~(c.confidence < ConfidenceGate)

\* run_peer_agent up to the dispatch: _classify_task_node (llm.chat, parse,
\* coerce, agent_runs_repo.create) and _route_to_agent_node.  The chat call
\* touches nothing shared, so it is taken together with the insert.
\*   chat: the chat call answers r, or raises; saved: the insert succeeds.
Classify(w, chat, r, saved) ==
    /\ pc[w] = "classify"
    /\ ~chat => saved
    /\ Call(chat /\ saved)
    /\ LET p == ParseClassification(r)
           inserted == chat /\ p.err = Null /\ saved
       IN /\ agent_runs' = IF inserted THEN [agent_runs EXCEPT ![tid[w]] = @ + 1]
                           ELSE agent_runs
          /\ IF ~chat THEN Raise(w, "LLMError", "mf_update") /\ UNCHANGED cls
             ELSE IF p.err # Null THEN Raise(w, p.err, "mf_update") /\ UNCHANGED cls
             ELSE IF ~saved THEN Raise(w, "LLMError", "mf_update") /\ UNCHANGED cls
             ELSE IF ~RouteAccepts(p.cls)
                  THEN Raise(w, "UNKNOWN_TASK_TYPE", "mf_update") /\ UNCHANGED cls
             ELSE /\ cls' = [cls EXCEPT ![w] = p.cls.agent_name]
                  /\ Goto(w, "agent")
                  /\ UNCHANGED exc
    /\ UNCHANGED <<run, sideVars, apiVars, tasks, messages, last_task_id, events, queue, deliveries,
                   tid, task, out>>

\* --------------------------------------------------------------- handlers
\* _execute_agent_node: registry.get(agent_name).run(task).
\*   ContentAgent: web search (a failure is logged and gives no results),
\*   then one chat call.  CodeAgent: the planning chat, then the generation
\*   chat (output that is not JSON falls back; a call raising fails, and so
\*   does a reply that is JSON but no object: payload.get raises).
\* first, second: whether the first and the second call answer;
\* objects: whether the code handler's JSON replies are objects.
ExecuteAgent(w, first, second, objects) ==
    /\ pc[w] = "agent"
    /\ Call(first /\ second)
    /\ first \/ second
    /\ objects \/ (first /\ second)
    /\ IF \/ cls[w] = "ContentAgent" /\ second
          \/ cls[w] = "CodeAgent" /\ first /\ second /\ objects
       THEN /\ out' = [out EXCEPT ![w] = cls[w]]
            /\ Goto(w, "mc_update")
            /\ UNCHANGED exc
       ELSE /\ Raise(w, "LLMError", "mf_update")
            /\ UNCHANGED out
    /\ UNCHANGED <<run, sideVars, apiVars, repoVars, events, queue, deliveries, tid, task, cls>>

\* AgentOutput.content of the agent that ran
ContentOf(agent) == IF agent = "CodeAgent" THEN "code_block" ELSE "article"

\* ---------------------------------------------------------- mark_completed
\* tasks_repo.update(status=completed, result, cost, ...);
\* if not updated: raise RuntimeError.  Inside the try block.
McUpdate(w, res) ==
    /\ pc[w] = "mc_update"
    /\ Call(res = "ok")
    /\ IF Written(res) THEN Update(w, CompletedUpdate(out[w], ContentOf(out[w])))
       ELSE UNCHANGED tasks
    /\ IF res # "ok" THEN Raise(w, "RepositoryError", "mf_update")
       ELSE IF tasks[tid[w]] = NoTask THEN Raise(w, "RuntimeError", "mf_update")
       ELSE Goto(w, "mc_publish") /\ UNCHANGED exc
    /\ UNCHANGED <<run, sideVars, apiVars, agent_runs, messages, last_task_id, events, queue, deliveries,
                   tid, task, cls, out>>

\* _publish_event(completed)
McPublish(w, ok) ==
    /\ pc[w] = "mc_publish"
    /\ Call(ok)
    /\ Publish(w, COMPLETED, ok)
    /\ IF PublishRaises(ok) THEN Raise(w, "RepositoryError", "mf_update")
       ELSE Goto(w, "mc_message") /\ UNCHANGED exc
    /\ UNCHANGED <<run, sideVars, apiVars, repoVars, queue, deliveries, tid, task, cls, out>>

\* messages_repo.create of the assistant message
McMessage(w, ok) ==
    /\ pc[w] = "mc_message"
    /\ Call(ok)
    /\ IF ~ok THEN /\ Raise(w, "RepositoryError", "mf_update")
                   /\ UNCHANGED messages
       ELSE /\ messages' = [messages EXCEPT ![tid[w]].assistant = @ + 1]
            /\ Goto(w, "session")
            /\ UNCHANGED exc
    /\ UNCHANGED <<run, sideVars, apiVars, tasks, agent_runs, last_task_id, events, queue, deliveries,
                   tid, task, cls, out>>

\* session_service.update_last_task (get_by_session_id, then update);
\* then the invocation returns
SessionUpdate(w, ok) ==
    /\ pc[w] = "session"
    /\ Call(ok)
    /\ IF ~ok THEN /\ Raise(w, "RepositoryError", "mf_update")
                   /\ UNCHANGED last_task_id
       ELSE /\ last_task_id' = tid[w]
            /\ Goto(w, "returned")
            /\ UNCHANGED exc
    /\ UNCHANGED <<run, sideVars, apiVars, tasks, agent_runs, messages, events, queue, deliveries,
                   tid, task, cls, out>>

\* ------------------------------------------------------------- mark_failed
\* the except clauses: UnknownTaskTypeError is recorded by its code and
\* without a stack, anything else by its class name with the traceback.
HasStackAlways(e) == TRUE
HasStack(e) == e # "UNKNOWN_TASK_TYPE"

\* tasks_repo.update(status=failed, error, completed_at); if not updated:
\* raise RuntimeError.  Called from the except clauses: a raise here leaves
\* _process_task_async.
MfUpdate(w, res) ==
    /\ pc[w] = "mf_update"
    /\ Call(res = "ok")
    /\ IF Written(res) THEN Update(w, FailedUpdate(exc[w], HasStack(exc[w])))
       ELSE UNCHANGED tasks
    /\ Goto(w, IF res # "ok" \/ tasks[tid[w]] = NoTask THEN "raised" ELSE "mf_publish")
    /\ UNCHANGED <<run, sideVars, apiVars, agent_runs, messages, last_task_id, events, queue, deliveries, localVars>>

\* _publish_event(failed); then the invocation returns
MfPublish(w, ok) ==
    /\ pc[w] = "mf_publish"
    /\ Call(ok)
    /\ Publish(w, FAILED, ok)
    /\ Goto(w, IF PublishRaises(ok) THEN "raised" ELSE "returned")
    /\ UNCHANGED <<run, sideVars, apiVars, repoVars, queue, deliveries, localVars>>

\* ------------------------------------------------------------ next-state
Next ==
    \/ \E t \in TaskIds, blank \in BOOLEAN : execute_task(t, blank)
    \/ \E ok \in BOOLEAN : EnsureSession(ok)
    \/ \E ok \in BOOLEAN : CreateTask(ok)
    \/ \E ok \in BOOLEAN : CreateMessage(ok)
    \/ \E ok \in BOOLEAN : PublishQueued(ok)
    \/ \E ok \in BOOLEAN : UpdateLastTask(ok)
    \/ \E ok \in BOOLEAN : Enqueue(ok)
    \/ \E w \in Workers, t \in JobIds : Deliver(w, t)
    \/ \E w \in Workers : Ack(w)
    \/ \E w \in Workers, ok \in BOOLEAN : GetTask(w, ok)
    \/ \E w \in Workers, res \in UpdateResults : MpUpdate(w, res)
    \/ \E w \in Workers, ok \in BOOLEAN : MpPublish(w, ok)
    \/ \E w \in Workers, chat \in BOOLEAN, r \in RouterReplies, saved \in BOOLEAN :
          Classify(w, chat, r, saved)
    \/ \E w \in Workers, first \in BOOLEAN, second \in BOOLEAN, objects \in BOOLEAN :
          ExecuteAgent(w, first, second, objects)
    \/ \E w \in Workers, res \in UpdateResults : McUpdate(w, res)
    \/ \E w \in Workers, ok \in BOOLEAN : McPublish(w, ok)
    \/ \E w \in Workers, ok \in BOOLEAN : McMessage(w, ok)
    \/ \E w \in Workers, ok \in BOOLEAN : SessionUpdate(w, ok)
    \/ \E w \in Workers, res \in UpdateResults : MfUpdate(w, res)
    \/ \E w \in Workers, ok \in BOOLEAN : MfPublish(w, ok)

Spec == Init /\ [][Next]_vars

\* ------------------------------------------------------- worker termination
\* The process running an invocation is terminated (task_time_limit, or a
\* crash) wherever the invocation stands: its locals are gone and nothing
\* more of it runs.  With task_acks_late the job is either still
\* unacknowledged and will be delivered again (requeue), or the pool has
\* acknowledged it for the lost process.  A termination counts against the
\* same budget as a raising call.
Terminate(w, requeue) ==
    /\ pc[w] # "idle"
    /\ Call(FALSE)
    /\ pc' = [pc EXCEPT ![w] = "idle"]
    /\ queue' = IF requeue THEN queue ELSE [queue EXCEPT ![tid[w]] = 0]
    /\ tid' = [tid EXCEPT ![w] = UnknownId]
    /\ task' = [task EXCEPT ![w] = "absent"]
    /\ cls' = [cls EXCEPT ![w] = Null]
    /\ out' = [out EXCEPT ![w] = Null]
    /\ exc' = [exc EXCEPT ![w] = Null]
    /\ UNCHANGED <<run, sideVars, apiVars, repoVars, events, deliveries>>

CrashNext ==
    \/ Next
    \/ \E w \in Workers, requeue \in BOOLEAN : Terminate(w, requeue)

CrashSpec == Init /\ [][CrashNext]_vars

\* ====================================================== run_peer_agent
\* One run of the router graph (classify_task -> route_to_agent ->
\* execute_agent) and of the handler graph it dispatches to, node by node,
\* with what each node reads and returns kept in the record run; then the
\* mark_completed / mark_failed call _process_task_async makes for it.
\* The repository, the queue and the workers are left alone.
sysVars == <<tasks, events, agent_runs, messages, last_task_id, queue, deliveries,
             pc, tid, task, cls, out, exc, faults, api, req>>

\* usage a Model Service call can report
UsageReports == {NoUsage, Usage(7, 3)}
AddUsage(a, b) ==
    Usage(a.prompt_tokens + b.prompt_tokens, a.completion_tokens + b.completion_tokens)

\* an exception leaves router.run: run_peer_agent hands it on as e
Failed(r, e) == [r EXCEPT !.exc = e, !.node = "mark_failed"]

\* a node awaits llm.chat: one more call made by that node
Attempt(r, node, ok) == [r EXCEPT !.chats = Append(@, [node |-> node, ok |-> ok])]

OnChatErrorRetry(r) == r

\* llm.chat raised: no node catches it, the graph run ends and
\* run_peer_agent wraps the exception in LLMError
OnChatError(r) == Failed(r, "LLMError")

\* _classify_task_node: llm.chat, json.loads, the coercions, then
\* agent_runs_repo.create of the router run
ClassifyTaskNode(chat, r, saved) ==
    /\ run.node = "idle"
    /\ LET p == ParseClassification(r)
           called == [Attempt(run, "classify_task", TRUE) EXCEPT !.reply = r, !.llm_calls = @ + 1]
       IN run' = IF ~chat THEN OnChatError(Attempt(run, "classify_task", FALSE))
                 ELSE IF p.err # Null THEN Failed(called, p.err)
                 ELSE IF ~saved THEN Failed(called, "LLMError")
                 ELSE [called EXCEPT !.classification = p.cls,
                                     !.agent_runs = @ + 1,
                                     !.node = "route_to_agent"]
    /\ UNCHANGED <<sysVars, sideVars>>

\* _route_to_agent_node
RouteToAgentNode ==
    /\ run.node = "route_to_agent"
    /\ run' = IF RouteAccepts(run.classification)
              THEN [run EXCEPT !.node = "execute_agent"]
              ELSE Failed(run, "UNKNOWN_TASK_TYPE")
    /\ UNCHANGED <<sysVars, sideVars>>

FirstNodeSwapped(agent) == IF agent = "CodeAgent" THEN "search_web" ELSE "plan_task"

\* _execute_agent_node: agent = registry.get(classification.agent_name);
\* agent.run(task) starts the handler's graph at its first node
FirstNode(agent) == IF agent = "CodeAgent" THEN "plan_task" ELSE "search_web"

ExecuteAgentNode ==
    /\ run.node = "execute_agent"
    /\ run' = [run EXCEPT !.handler = run.classification.agent_name,
                          !.node = FirstNode(run.classification.agent_name)]
    /\ UNCHANGED <<sysVars, sideVars>>

\* -------------------------------------------------------- ContentAgent
\* what the search provider can answer with: up to MaxResults items, each
\* with a title and a url, either of which can be missing
MaxResults == 3
Items == {[title |-> "A", url |-> "ua"], [title |-> Null, url |-> "ub"],
          [title |-> "C", url |-> Null]}
RECURSIVE SeqsUpTo(_, _)
SeqsUpTo(S, n) ==
    IF n = 0 THEN {<<>>}
    ELSE LET shorter == SeqsUpTo(S, n - 1)
         IN shorter \cup {Append(q, x) : q \in shorter, x \in S}
\* no_api_key: the tool has no client; provider_raises: client.search
\* raises; malformed: the response cannot be read (search itself raises);
\* results: the provider answers with items
SearchOutcomes ==
    [kind : {"no_api_key", "provider_raises", "malformed"}, items : {<<>>}]
    \cup [kind : {"results"}, items : SeqsUpTo(Items, MaxResults)]

OrEmpty(v) == IF v = Null THEN "" ELSE v

\* WebSearchTool.search
WebSearchTool_search(o) ==
    IF o.kind \in {"no_api_key", "provider_raises"} THEN [raised |-> FALSE, results |-> <<>>]
    ELSE IF o.kind = "malformed" THEN [raised |-> TRUE, results |-> <<>>]
    ELSE [raised |-> FALSE,
          results |-> [i \in 1..Len(o.items) |->
                          [title |-> OrEmpty(o.items[i].title),
                           url |-> OrEmpty(o.items[i].url)]]]

max_citations == 5
Take(q, n) == SubSeq(q, 1, IF Len(q) < n THEN Len(q) ELSE n)

\* the citations _search_web_node returns: an exception of the search is
\* logged and leaves search_results empty
Citations(o) ==
    LET answer == WebSearchTool_search(o)
        search_results == IF answer.raised THEN <<>> ELSE answer.results
    IN Take(search_results, max_citations)

SearchWebNodeRaising(o) ==
    /\ run.node = "search_web"
    /\ run' = IF WebSearchTool_search(o).raised
              THEN Failed([run EXCEPT !.search = o.kind], "LLMError")
              ELSE [run EXCEPT !.search = o.kind,
                               !.citations = Citations(o),
                               !.node = "generate_content"]
    /\ UNCHANGED <<sysVars, sideVars>>

SearchWebNode(o) ==
    /\ run.node = "search_web"
    /\ run' = [run EXCEPT !.search = o.kind,
                          !.citations = Citations(o),
                          !.node = "generate_content"]
    /\ UNCHANGED <<sysVars, sideVars>>

\* texts the content model can answer with
ContentReplies ==
    {<<Line("Body")>>,
     <<Line("Body"), Line("")>>,
     <<Line("Body"), Line("## References"), Line("- [1] source")>>,
     <<Line("Body"), Line("### REFERENCES"), Line("- [1] source")>>,
     <<Line("Body"), Line("References"), Line("source")>>,
     <<Line("References"), Line("source")>>,
     EmptyText}

\* _generate_content_node: the handler's single chat call
GenerateContentNode(chat, text, u) ==
    /\ run.node = "generate_content"
    /\ run' = IF ~chat THEN OnChatError(Attempt(run, "generate_content", FALSE))
              ELSE [Attempt(run, "generate_content", TRUE) EXCEPT !.content = text,
                               !.usage = u,
                               !.llm_calls = @ + 1,
                               !.node = "content_run"]
    /\ UNCHANGED <<sysVars, sideVars>>

\* str.lower on the line texts used here
Lower(t) ==
    CASE t = "## References" -> "## references"
      [] t = "### REFERENCES" -> "### references"
      [] t = "References" -> "references"
      [] t = "Go" -> "go"
      [] OTHER -> t

HasReferencesSectionPlainOnly(content) ==
    \E i \in 2..(Len(content) - 1) : Lower(content[i].text) = "references"

\* "## references" in normalized or "\nreferences\n" in normalized
HasReferencesSection(content) ==
    \/ \E i \in 1..Len(content) :
          Lower(content[i].text) \in {"## references", "### references"}
    \/ \E i \in 2..(Len(content) - 1) : Lower(content[i].text) = "references"

\* str.rstrip: trailing blank lines go
RECURSIVE RStrip(_)
RStrip(content) ==
    IF Len(content) > 1 /\ content[Len(content)].text = ""
    THEN RStrip(SubSeq(content, 1, Len(content) - 1))
    ELSE content

\* the loop over the citations: one entry per citation with a url,
\* numbered from index on
RECURSIVE ReferenceLinesWrongIndex(_, _)
ReferenceLinesWrongIndex(citations, index) ==
    IF citations = <<>> THEN <<>>
    ELSE LET citation == Head(citations)
         IN IF citation.url = ""
            THEN ReferenceLinesWrongIndex(Tail(citations), index + 1)
            ELSE <<RefLine(index, citation.url,
                           IF citation.title = "" THEN citation.url ELSE citation.title)>>
                 \o ReferenceLinesWrongIndex(Tail(citations), index + 1)

RECURSIVE ReferenceLines(_, _)
ReferenceLines(citations, index) ==
    IF citations = <<>> THEN <<>>
    ELSE LET citation == Head(citations)
         IN IF citation.url = ""
            THEN ReferenceLines(Tail(citations), index)
            ELSE <<RefLine(index, citation.url,
                           IF citation.title = "" THEN citation.url ELSE citation.title)>>
                 \o ReferenceLines(Tail(citations), index + 1)

\* ContentAgent._append_reference_section_if_missing
append_reference_section_if_missing(content, citations) ==
    IF citations = <<>> THEN content
    ELSE IF HasReferencesSection(content) THEN content
    ELSE LET lines == ReferenceLines(citations, 1)
         IN IF lines = <<>> THEN content
            ELSE RStrip(content) \o <<Line(""), Line(""), Line("## References")>>
                 \o lines \o <<Line("")>>

\* ContentAgent.run after the graph: post-process and build the output
ContentRun ==
    /\ run.node = "content_run"
    /\ run' = [run EXCEPT
                 !.output = [agent_name |-> "ContentAgent",
                             content |-> append_reference_section_if_missing(
                                             run.content, run.citations),
                             code_language |-> Null,
                             citations |-> run.citations],
                 !.node = "mark_completed"]
    /\ UNCHANGED <<sysVars, sideVars>>

\* ----------------------------------------------------------- CodeAgent
\* what the planning model can answer with: text that is not JSON, JSON
\* that is no object, or an object whose language and tests_required are
\* present or missing
PlanReplies ==
    [kind : {"text", "array"}, language : {Null}, tests_required : {Null}]
    \cup [kind : {"object"}, language : {Null, "Go"},
          tests_required : {Null, "true", "false"}]

\* the plan used when the planning JSON could not be parsed
FallbackPlanTested == [language |-> "python", tests_required |-> TRUE, fallback |-> TRUE]
FallbackPlan == [language |-> "python", tests_required |-> FALSE, fallback |-> TRUE]

\* _plan_task_node after the chat call: json.loads, then the coercions
PlanOf(reply) ==
    IF reply.kind = "text" THEN FallbackPlan
    ELSE [language |-> IF reply.language = Null THEN "python" ELSE reply.language,
          tests_required |-> reply.tests_required = "true",
          fallback |-> FALSE]

\* json.loads answered something that has no .get
NotAnObject(reply) == reply.kind = "array"

PlanTaskNode(chat, reply, u) ==
    /\ run.node = "plan_task"
    /\ run' = IF ~chat THEN OnChatError(Attempt(run, "plan_task", FALSE))
              ELSE LET called == [Attempt(run, "plan_task", TRUE) EXCEPT !.plan_reply = reply.kind,
                                             !.llm_calls = @ + 1]
                   IN IF NotAnObject(reply) THEN Failed(called, "LLMError")
                      ELSE [called EXCEPT !.plan = PlanOf(reply),
                                          !.usage = u,
                                          !.node = "generate_code"]
    /\ UNCHANGED <<sysVars, sideVars>>

\* what the generation model can answer with
CodeReplies ==
    [kind : {"text", "array"}, language : {Null}, code : {Null}]
    \cup [kind : {"object"}, language : {Null, "Go"}, code : {Null, "source"}]

\* _generate_code_node after the chat call
ArtifactOf(reply, plan) ==
    IF reply.kind = "text"
    THEN [language |-> plan.language, description |-> "default", code |-> "raw reply"]
    ELSE [language |-> IF reply.language = Null THEN plan.language ELSE reply.language,
          description |-> "default",
          code |-> OrEmpty(reply.code)]

GenerateCodeNode(chat, reply, u) ==
    /\ run.node = "generate_code"
    /\ run' = IF ~chat THEN OnChatError(Attempt(run, "generate_code", FALSE))
              ELSE LET called == [Attempt(run, "generate_code", TRUE) EXCEPT !.generate_calls = @ + 1,
                                             !.llm_calls = @ + 1]
                   IN IF NotAnObject(reply) THEN Failed(called, "LLMError")
                      ELSE [called EXCEPT !.generated = ArtifactOf(reply, run.plan),
                                          !.usage = AddUsage(@, u),
                                          !.node = "code_run"]
    /\ UNCHANGED <<sysVars, sideVars>>

\* CodeAgent.run after the graph: format the artifact and build the output
CodeRun ==
    /\ run.node = "code_run"
    /\ run' = [run EXCEPT
                 !.output = [agent_name |-> "CodeAgent",
                             content |-> <<Line("### Description"),
                                           Line(run.generated.description),
                                           Line("### Code"),
                                           Line(Lower(run.generated.language)),
                                           Line(run.generated.code)>>,
                             code_language |-> Lower(run.generated.language),
                             citations |-> <<>>],
                 !.node = "mark_completed"]
    /\ UNCHANGED <<sysVars, sideVars>>

\* what the worker passes to mark_completed as token counts
prompt_tokens == 0
completion_tokens == 0

\* _process_task_async after run_peer_agent returned: mark_completed
MarkCompleted ==
    /\ run.node = "mark_completed"
    /\ run' = [run EXCEPT !.status = COMPLETED,
                          !.selected_agent = run.output.agent_name,
                          !.cost = Usage(prompt_tokens, completion_tokens),
                          !.node = "done"]
    /\ UNCHANGED <<sysVars, sideVars>>

\* _process_task_async, the except clauses: mark_failed
MarkFailed ==
    /\ run.node = "mark_failed"
    /\ run' = [run EXCEPT !.status = FAILED,
                          !.error_type = FailedUpdate(run.exc, HasStack(run.exc)).error.type,
                          !.node = "done"]
    /\ UNCHANGED <<sysVars, sideVars>>

RunNext ==
    \/ \E chat \in BOOLEAN, r \in RouterReplies, saved \in BOOLEAN :
          ClassifyTaskNode(chat, r, saved)
    \/ RouteToAgentNode
    \/ ExecuteAgentNode
    \/ \E o \in SearchOutcomes : SearchWebNode(o)
    \/ \E chat \in BOOLEAN, text \in ContentReplies, u \in UsageReports :
          GenerateContentNode(chat, text, u)
    \/ ContentRun
    \/ \E chat \in BOOLEAN, reply \in PlanReplies, u \in UsageReports :
          PlanTaskNode(chat, reply, u)
    \/ \E chat \in BOOLEAN, reply \in CodeReplies, u \in UsageReports :
          GenerateCodeNode(chat, reply, u)
    \/ CodeRun
    \/ MarkCompleted
    \/ MarkFailed

RunSpec == Init /\ [][RunNext]_vars

\* ====================================================== one worker process
\* The process_task invocations of one worker process and the event loop
\* they run on.  proc.loop is the module global _loop, proc.closed the loops
\* that are closed, proc.calls the run_worker_coroutine calls in the order
\* they were made, proc.ran the call each step taken on a loop belongs to.
procFrame == <<sysVars, run, limiter, bus, repo>>

\* what get_worker_event_loop finds in _loop
Found(p) == IF p.loop = 0 THEN "none"
            ELSE IF p.loop \in p.closed THEN "closed"
            ELSE "open"

get_worker_event_loopFresh(p) ==
    [p EXCEPT !.created = @ + 1, !.loop = p.created + 1]

\* get_worker_event_loop: a new loop iff none is cached or the cached one
\* is closed
get_worker_event_loop(p) ==
    IF p.loop = 0 \/ p.loop \in p.closed
    THEN [p EXCEPT !.created = @ + 1, !.loop = p.created + 1]
    ELSE p

InProgress(p) == {i \in DOMAIN p.calls : p.calls[i].outcome = "running"}

CanStartAlways(p) == TRUE

\* process_task is a synchronous function and loop.run_until_complete
\* blocks the process until the coroutine is done: the process takes its
\* next job only after process_task has returned or raised
CanStart(p) == InProgress(p) = {}

\* process_task -> run_worker_coroutine, up to loop.run_until_complete
Invoke ==
    /\ Len(proc.calls) < MaxInvocations
    /\ CanStart(proc)
    /\ LET q == get_worker_event_loop(proc)
       IN proc' = [q EXCEPT !.calls = Append(@, [loop |-> q.loop,
                                                 found |-> Found(proc),
                                                 steps |-> 0,
                                                 coro |-> "pending",
                                                 outcome |-> "running"])]
    /\ UNCHANGED procFrame

\* the coroutine of call i takes a step on its loop
RunStep(i) ==
    /\ i \in InProgress(proc)
    /\ proc.calls[i].steps < MaxSteps
    /\ proc' = [proc EXCEPT !.calls[i].steps = @ + 1, !.ran = Append(@, i)]
    /\ UNCHANGED procFrame

AfterCoroutineClosing(p, ok) ==
    IF ok THEN p ELSE [p EXCEPT !.closed = @ \cup {p.loop}]

\* run_worker_coroutine after run_until_complete: the except clause logs
\* and re-raises, the else clause returns; neither touches _loop
AfterCoroutine(p, ok) == p

\* run_until_complete is over: the coroutine returned (ok) or raised
Finish(i, ok) ==
    /\ i \in InProgress(proc)
    /\ LET q == AfterCoroutine(proc, ok)
       IN proc' = [q EXCEPT !.calls[i].coro = IF ok THEN "result" ELSE "exception",
                            !.calls[i].outcome = IF ok THEN "returned" ELSE "raised"]
    /\ UNCHANGED procFrame

\* the cached loop is closed from outside between two invocations (a test
\* harness tearing its loop down): what _loop.is_closed() then reports
CloseLoop ==
    /\ Found(proc) = "open"
    /\ InProgress(proc) = {}
    /\ proc' = [proc EXCEPT !.closed = @ \cup {proc.loop}]
    /\ UNCHANGED procFrame

ProcNext ==
    \/ Invoke
    \/ \E i \in 1..MaxInvocations : RunStep(i)
    \/ \E i \in 1..MaxInvocations, ok \in BOOLEAN : Finish(i, ok)
    \/ CloseLoop

ProcSpec == Init /\ [][ProcNext]_vars

\* ========================================================= rate limiter
\* RateLimiterMiddleware.dispatch request by request, await by await.
rateFrame == <<sysVars, run, proc, bus, repo>>

\* get_settings: the process reads its environment once
Configure(env, limit) ==
    /\ limiter.environment = "unset"
    /\ limiter' = [limiter EXCEPT !.environment = env,
                                  !.api_rate_limit_per_minute = limit]
    /\ UNCHANGED rateFrame

\* _is_enabled
_is_enabled(l) ==
    IF l.environment \in {"local", "test"} THEN FALSE
    ELSE l.api_rate_limit_per_minute > 0

FailClosed(q) == [q EXCEPT !.pc = "done", !.outcome = "rejected"]

\* the except clauses around get_redis_client and redis.incr: log and
\* return await call_next(request)
FailOpen(q) == [q EXCEPT !.pc = "done", !.outcome = "passed"]

\* dispatch up to the redis.incr call: the enabled test, the key, the
\* backend client and the minute bucket.  Requests are numbered in the
\* order they arrive.
Dispatch(r, c, client_ok) ==
    /\ limiter.environment # "unset"
    /\ limiter.reqs[r].pc = "new"
    /\ \A o \in ReqIds : limiter.reqs[o].pc = "new" => \neg (o < r)
    /\ LET q == limiter.reqs[r]
           keyed == [q EXCEPT !.key = _build_key(c.ip, c.api_key)]
       IN limiter' =
            [limiter EXCEPT !.reqs[r] =
               IF ~_is_enabled(limiter)
               THEN [q EXCEPT !.pc = "done", !.outcome = "passed"]
               ELSE IF ~client_ok
               THEN FailOpen([keyed EXCEPT !.fault = "client"])
               ELSE [keyed EXCEPT !.bucket = limiter.minute, !.pc = "incr"]]
    /\ UNCHANGED rateFrame

\* current = await redis.incr(redis_key)
Incr(r, ok) ==
    /\ limiter.reqs[r].pc = "incr"
    /\ LET q == limiter.reqs[r]
           n == limiter.counters[q.bucket][q.key] + 1
       IN limiter' =
            IF ~ok
            THEN [limiter EXCEPT !.reqs[r] = FailOpen([q EXCEPT !.fault = "incr"])]
            ELSE [limiter EXCEPT !.counters[q.bucket][q.key] = n,
                                 !.reqs[r].current = n,
                                 !.reqs[r].pc = IF n = 1 THEN "expire" ELSE "check"]
    /\ UNCHANGED rateFrame

\* await redis.expire(...) for the first request of a bucket; a failure is
\* logged and dropped
Expire(r, ok) ==
    /\ limiter.reqs[r].pc = "expire"
    /\ limiter' = [limiter EXCEPT !.reqs[r].pc = "check",
                                  !.reqs[r].fault = IF ok THEN @ ELSE "expire"]
    /\ UNCHANGED rateFrame

AdmitOneOver(r) ==
    /\ limiter.reqs[r].pc = "check"
    /\ LET q == limiter.reqs[r]
           limit_per_min == limiter.api_rate_limit_per_minute
       IN limiter' =
            [limiter EXCEPT !.reqs[r] =
               IF q.current > limit_per_min + 1
               THEN [q EXCEPT !.pc = "done", !.outcome = "rejected"]
               ELSE [q EXCEPT !.pc = "done", !.outcome = "passed",
                              !.remaining = IF limit_per_min - q.current > 0
                                            THEN limit_per_min - q.current ELSE 0]]
    /\ UNCHANGED rateFrame

\* the limit test: RateLimitExceededError, or call_next and the
\* X-RateLimit-* headers
Admit(r) ==
    /\ limiter.reqs[r].pc = "check"
    /\ LET q == limiter.reqs[r]
           limit_per_min == limiter.api_rate_limit_per_minute
       IN limiter' =
            [limiter EXCEPT !.reqs[r] =
               IF q.current > limit_per_min
               THEN [q EXCEPT !.pc = "done", !.outcome = "rejected"]
               ELSE [q EXCEPT !.pc = "done", !.outcome = "passed",
                              !.remaining = IF limit_per_min - q.current > 0
                                            THEN limit_per_min - q.current ELSE 0]]
    /\ UNCHANGED rateFrame

\* the clock passes into the next minute
Tick ==
    /\ limiter.environment # "unset"
    /\ limiter.minute < MaxBuckets
    /\ limiter' = [limiter EXCEPT !.minute = @ + 1]
    /\ UNCHANGED rateFrame

RateNext ==
    \/ \E env \in Environments, limit \in 0..MaxLimit : Configure(env, limit)
    \/ \E r \in ReqIds, c \in Clients, client_ok \in BOOLEAN : Dispatch(r, c, client_ok)
    \/ \E r \in ReqIds, ok \in BOOLEAN : Incr(r, ok)
    \/ \E r \in ReqIds, ok \in BOOLEAN : Expire(r, ok)
    \/ \E r \in ReqIds : Admit(r)
    \/ Tick

RateSpec == Init /\ [][RateNext]_vars

\* ============================================================ event bus
\* TaskService._publish_event on one side, one stream_task_events request
\* on the other, with the pub/sub backend in between: a message is sent to
\* the connections subscribed to its channel at the moment it is published
\* and kept nowhere.
busFrame == <<sysVars, run, proc, limiter, repo>>

\* stream_task_events: channel = f"task_events:{task_id}"
StreamChannel(task_id) == <<"task_events", task_id>>
\* _publish_event: channel = f"task_events:{task_id}"
PublishChannel(task_id) == <<"task_events", task_id>>

DeliversAny(sub, channel) == sub.state = "subscribed"

\* the backend sends a message to a connection iff the connection is
\* subscribed to the message's channel
Delivers(sub, channel) == sub.state = "subscribed" /\ sub.channel = channel

\* event_stream up to the loop: pubsub = redis.pubsub();
\* await pubsub.subscribe(channel)
Subscribe(t) ==
    /\ bus.sub.state = "new"
    /\ bus' = [bus EXCEPT !.sub.state = "subscribed",
                          !.sub.channel = StreamChannel(t),
                          !.sub.since = Len(bus.published)]
    /\ UNCHANGED busFrame

\* _publish_event: redis.publish(channel, json.dumps(payload)); when it
\* raises nothing was published.  Messages are numbered as they are
\* published.
PublishEvent(t, ok) ==
    /\ Len(bus.published) + bus.failed < MaxEvents
    /\ LET msg == [channel |-> PublishChannel(t), n |-> Len(bus.published) + 1]
       IN bus' = IF ~ok THEN [bus EXCEPT !.failed = @ + 1]
                 ELSE [bus EXCEPT !.published = Append(@, msg),
                                  !.sub.inbox = IF Delivers(bus.sub, msg.channel)
                                                THEN Append(@, msg) ELSE @]
    /\ UNCHANGED busFrame

\* one turn of the loop with the client connected and a message waiting:
\* get_message returns it and it is yielded (a turn in which get_message
\* returns None changes nothing)
Pull ==
    /\ bus.sub.state = "subscribed"
    /\ ~bus.sub.gone
    /\ bus.sub.inbox # <<>>
    /\ bus' = [bus EXCEPT !.sub.received = Append(@, Head(bus.sub.inbox)),
                          !.sub.inbox = Tail(@)]
    /\ UNCHANGED busFrame

\* the client goes away
Disconnect ==
    /\ bus.sub.state = "subscribed"
    /\ ~bus.sub.gone
    /\ bus' = [bus EXCEPT !.sub.gone = TRUE]
    /\ UNCHANGED busFrame

\* the loop sees request.is_disconnected(): break, then the finally
\* clause unsubscribes and closes the connection
Unsubscribe ==
    /\ bus.sub.state = "subscribed"
    /\ bus.sub.gone
    /\ bus' = [bus EXCEPT !.sub.state = "closed", !.sub.inbox = <<>>]
    /\ UNCHANGED busFrame

BusNext ==
    \/ \E t \in BusTaskIds : Subscribe(t)
    \/ \E t \in BusTaskIds, ok \in BOOLEAN : PublishEvent(t, ok)
    \/ Pull
    \/ Disconnect
    \/ Unsubscribe

BusSpec == Init /\ [][BusNext]_vars

\* ===================================================== tasks collection
\* create_task, get_task and the worker's mark_processing /
\* mark_completed / mark_failed on one task, with the clock.
storeFrame == <<sysVars, run, proc, limiter, bus>>

\* Task(**doc): the declared fields of the document; the _id insert_one
\* added to it is not a field of Task and is dropped
TaskOf(doc) ==
    IF doc = NoDocument THEN None
    ELSE [f \in DOMAIN doc \ {"id"} |-> doc[f]]

TaskRepository_createStarted(task_id, task_create, now) ==
    [id |-> "oid", task_id |-> task_id, session_id |-> task_create.session_id,
     input_text |-> task_create.input_text, status |-> QUEUED, selected_agent |-> Null,
     created_at |-> now, updated_at |-> now, queued_at |-> now,
     started_at |-> now, completed_at |-> 0, error |-> Null, result |-> Null]

\* TaskRepository.create: the document built and inserted
TaskRepository_create(task_id, task_create, now) ==
    [id |-> "oid", task_id |-> task_id, session_id |-> task_create.session_id,
     input_text |-> task_create.input_text, status |-> QUEUED, selected_agent |-> Null,
     created_at |-> now, updated_at |-> now, queued_at |-> now,
     started_at |-> 0, completed_at |-> 0, error |-> Null, result |-> Null]

\* TaskRepository.update: $set of the fields the TaskUpdate sets and of
\* updated_at; no document matches a missing task
SetFields(doc, upd, now) ==
    IF doc = NoDocument THEN doc
    ELSE [f \in DOMAIN doc |-> IF f \in DOMAIN upd THEN upd[f]
                                ELSE IF f = "updated_at" THEN now
                                ELSE doc[f]]

\* the TaskUpdate of mark_processing, mark_completed and mark_failed, with
\* the utc_now() each of them calls
MarkProcessingUpdate(now) == [status |-> PROCESSING, started_at |-> now]
MarkCompletedUpdate(agent, now) ==
    [status |-> COMPLETED, selected_agent |-> agent, result |-> "output",
     completed_at |-> now]
MarkFailedUpdate(now) == [status |-> FAILED, error |-> "error", completed_at |-> now]

\* time passes
ClockTick ==
    /\ repo.now < MaxClock
    /\ repo' = [repo EXCEPT !.now = @ + 1]
    /\ UNCHANGED storeFrame

\* TaskService.create_task -> TaskRepository.create, with a new uuid
StoreCreate(t, text, session) ==
    /\ t # UnknownId
    /\ repo.docs[t] = NoDocument
    /\ LET doc == TaskRepository_create(t, [input_text |-> text, session_id |-> session],
                                        repo.now)
       IN repo' = [repo EXCEPT !.docs[t] = doc,
                               !.created = [text |-> text, session |-> session,
                                            task |-> TaskOf(doc)]]
    /\ UNCHANGED storeFrame

\* TaskService.get_task -> TaskRepository.get_by_task_id
StoreGet(t) ==
    /\ repo' = [repo EXCEPT !.got = [asked |-> t, task |-> TaskOf(repo.docs[t])]]
    /\ UNCHANGED storeFrame

\* the job of the created task is delivered: _process_task_async up to
\* get_task, which finds the task
StoreDeliver(t) ==
    /\ repo.docs[t] # NoDocument
    /\ Len(repo.runs) < MaxRuns
    /\ repo' = [repo EXCEPT !.runs = Append(@, [task_id |-> t, pc |-> "mark_processing"])]
    /\ UNCHANGED storeFrame

\* mark_processing
StoreProcessing(i) ==
    /\ i \in DOMAIN repo.runs
    /\ repo.runs[i].pc = "mark_processing"
    /\ LET t == repo.runs[i].task_id
       IN repo' = [repo EXCEPT
                     !.docs[t] = SetFields(@, MarkProcessingUpdate(repo.now), repo.now),
                     !.runs[i].pc = "run_peer_agent"]
    /\ UNCHANGED storeFrame

\* run_peer_agent returned and mark_completed follows, or something
\* raised and mark_failed follows
StoreTerminal(i, agent, ok) ==
    /\ i \in DOMAIN repo.runs
    /\ repo.runs[i].pc = "run_peer_agent"
    /\ LET t == repo.runs[i].task_id
           upd == IF ok THEN MarkCompletedUpdate(agent, repo.now)
                  ELSE MarkFailedUpdate(repo.now)
       IN repo' = [repo EXCEPT !.docs[t] = SetFields(@, upd, repo.now),
                               !.runs[i].pc = "done"]
    /\ UNCHANGED storeFrame

StoreNext ==
    \/ ClockTick
    \/ \E t \in JobIds, text \in Texts, session \in Sessions : StoreCreate(t, text, session)
    \/ \E t \in JobIds : StoreGet(t)
    \/ \E t \in JobIds : StoreDeliver(t)
    \/ \E i \in 1..MaxRuns : StoreProcessing(i)
    \/ \E i \in 1..MaxRuns, agent \in KnownAgents, ok \in BOOLEAN : StoreTerminal(i, agent, ok)

StoreSpec == Init /\ [][StoreNext]_vars

\* ================================================================ claims
\* positions of an invocation after mark_processing has written
Running == {"mp_publish", "classify", "agent", "mc_update", "mc_publish",
            "mc_message", "session", "mf_update", "mf_publish"}
Ended == {"returned", "raised"}
\* positions at a _publish_event call
PublishPcs == {"mp_publish", "mc_publish", "mf_publish"}

\* w takes a step of its invocation
Steps(w) == pc'[w] # pc[w]

\* the _publish_event calls w made for its task
CallsOf(w) == Statuses(SelectSeq(events[tid[w]], LAMBDA e : e.by = w))

IsPrefix(s, t) == Len(s) <= Len(t) /\ \A i \in 1..Len(s) : s[i] = t[i]

LifecycleSteps ==
    {<<"absent", QUEUED>>, <<QUEUED, PROCESSING>>,
     <<PROCESSING, COMPLETED>>, <<PROCESSING, FAILED>>}

\* C1: the persisted status of a task only ever moves queued -> processing
\* -> completed | failed; no write reverses or skips a transition, whatever
\* the deliveries.
C1_StatusMonotone ==
    [][\A t \in TaskIds :
          tasks'[t].status # tasks[t].status
              => <<tasks[t].status, tasks'[t].status>> \in LifecycleSteps]_vars

\* C2: an invocation that finds its task completed or failed changes no
\* record (task, agent runs, messages, session) and publishes nothing.
C2_TerminalReinvokeNoEffect ==
    [][\A w \in Workers :
          (task[w] \in Terminal /\ Steps(w))
              => (repoVars' = repoVars /\ events' = events)]_vars

\* C3: of the invocations handling one task id at most one is past the
\* transition to processing at any time.
C3_AtMostOneRuns ==
    \A w1, w2 \in Workers :
        (w1 # w2 /\ tid[w1] = tid[w2]) => ~(pc[w1] \in Running /\ pc[w2] \in Running)

\* C4: a task has a result iff it is completed and an error iff it is
\* failed.
C4_ResultErrorIff ==
    \A t \in TaskIds :
        tasks[t] # NoTask =>
            /\ (tasks[t].result # Null) <=> (tasks[t].status = COMPLETED)
            /\ (tasks[t].error # NoError) <=> (tasks[t].status = FAILED)

\* C5: once an invocation has written completed and gone on to publish the
\* completed event, no later step of it writes the task record again
\* (stated where it is the only invocation there has been, so the
\* completed record is its own).
C5_NoWriteAfterCompleted ==
    [][\A w \in Workers :
          (deliveries = 1 /\ tid[w] \in TaskIds /\ Steps(w)
             /\ tasks[tid[w]].status = COMPLETED
             /\ \E i \in 1..Len(CallsOf(w)) : CallsOf(w)[i] = COMPLETED)
              => tasks'[tid[w]] = tasks[tid[w]]]_vars

\* C6: no invocation ends by raising to the job queue.
C6_NoExceptionEscapes == \A w \in Workers : pc[w] # "raised"

\* C7: an invocation that has completed the transition to processing leaves
\* its task completed or failed at the step it ends with.
C7_EndsTerminal ==
    [][\A w \in Workers :
          (pc'[w] \in Ended /\ pc[w] \in Running)
              => tasks'[tid[w]].status \in Terminal]_vars

\* C8: an invocation that found its task and returned has made exactly the
\* publish calls processing, then one of completed or failed.
C8_ProcessingThenOneTerminal ==
    \A w \in Workers :
        (pc[w] = "returned" /\ tid[w] \in TaskIds)
            => CallsOf(w) \in {<<PROCESSING, COMPLETED>>, <<PROCESSING, FAILED>>}

\* C9: the status_changed events published for a task are a prefix of
\* queued, processing, completed or of queued, processing, failed (stated
\* where the transport lost none of them).
C9_ChannelIsLifecyclePrefix ==
    \A t \in TaskIds :
        Published(events[t]) = events[t] =>
        \/ IsPrefix(Statuses(events[t]), <<QUEUED, PROCESSING, COMPLETED>>)
        \/ IsPrefix(Statuses(events[t]), <<QUEUED, PROCESSING, FAILED>>)

\* where an invocation continues after a publish call
AfterPublish(p) ==
    IF p = "mp_publish" THEN "classify"
    ELSE IF p = "mc_publish" THEN "mc_message" ELSE "returned"

\* C10: a publish call, whether the transport delivers or fails, raises
\* nothing and changes no record: the invocation continues at the same
\* place with the same task record, handled exception and repository as
\* when the publish succeeds.
C10_PublishFailureSwallowed ==
    [][/\ \A w \in Workers :
            (pc[w] \in PublishPcs /\ Steps(w))
                => /\ pc'[w] = AfterPublish(pc[w])
                   /\ exc'[w] = exc[w]
                   /\ repoVars' = repoVars
       /\ (api = "publish" /\ api' # api)
            => (api' = "last_task" /\ repoVars' = repoVars)]_vars

\* C10 witness: a task completed although a publish for it failed
C10_Witness ==
    \E t \in TaskIds :
        /\ tasks[t].status = COMPLETED
        /\ tasks[t].error = NoError
        /\ \E i \in 1..Len(events[t]) : ~events[t][i].ok

\* the run has ended: mark_completed or mark_failed has been called
RunDone == run.node = "done"
\* the router's reply was parsed and recorded, so routing was evaluated
Routed == run.agent_runs = 1

\* C11: a handler is run iff the classification names ContentAgent or
\* CodeAgent with confidence >= 0.6 (0.600 in, 0.599 out), and the handler
\* run is the one the classification names.
C11_HandlerIffAccepted ==
    /\ run.handler # Null => run.handler = run.classification.agent_name
    /\ RunDone =>
          (run.handler # Null <=>
              /\ run.classification.agent_name \in {"ContentAgent", "CodeAgent"}
              /\ run.classification.confidence >= 600)

\* C11 witness: a classification with confidence exactly 0.6 had its
\* handler run
C11_Witness ==
    /\ RunDone
    /\ run.classification.confidence = 600
    /\ run.handler = "CodeAgent"

\* C12: a classification whose agent_name is no handler's name is rejected
\* whatever its confidence: no handler runs and the task is marked failed
\* with error type UNKNOWN_TASK_TYPE.
C12_UnknownAgentRejected ==
    (RunDone /\ Routed
       /\ run.classification.agent_name \notin {"ContentAgent", "CodeAgent"})
        => /\ run.handler = Null
           /\ run.llm_calls = 1
           /\ run.status = FAILED
           /\ run.error_type = "UNKNOWN_TASK_TYPE"

\* C12 witness: agent_name Unknown with confidence 0.95 ended failed as
\* UNKNOWN_TASK_TYPE
C12_Witness ==
    /\ RunDone
    /\ run.classification = [agent_name |-> "Unknown", confidence |-> 950]
    /\ run.error_type = "UNKNOWN_TASK_TYPE"

\* router output that is not JSON of the expected shape
Malformed(reply) ==
    \/ reply.kind \in {"text", "array"}
    \/ reply.kind = "object" /\ reply.conf_kind = "text"

\* C13: when the router's output is not JSON, not an object, or has a
\* confidence that is no number, no handler runs and the task is marked
\* failed with the routing error type, not a generic one.
C13_MalformedIsRoutingError ==
    (RunDone /\ Malformed(run.reply))
        => /\ run.handler = Null
           /\ run.status = FAILED
           /\ run.error_type = "UNKNOWN_TASK_TYPE"

\* C14: every task marked failed with the routing error has a router
\* AgentRun in the repository.
C14_RoutingFailureHasAgentRun ==
    (RunDone /\ run.error_type = "UNKNOWN_TASK_TYPE") => run.agent_runs >= 1

\* C15: for a completed task the number of AgentRun records equals the
\* number of Model Service calls made for it.
C15_AgentRunPerModelCall ==
    (RunDone /\ run.status = COMPLETED) => run.agent_runs = run.llm_calls

\* C16: for a completed task the persisted cost equals the summed usage
\* the handler's Model Service calls reported.
C16_CostIsSummedUsage ==
    (RunDone /\ run.status = COMPLETED) => run.cost = run.usage

\* C17: once a task is failed with an error, it stays failed with that
\* error whatever happens next.
C17_FailedIsPermanent ==
    [][\A t \in TaskIds :
          tasks[t].status = FAILED
              => (tasks'[t].status = FAILED /\ tasks'[t].error = tasks[t].error)]_vars

\* the search provider failed
SearchFailed == run.search \in {"provider_raises", "malformed"}

\* C18: in the content handler a failed search gives no citations and the
\* handler goes on to its one Model Service call; its output has an empty
\* citation list.
C18_SearchFailureDegrades ==
    [][/\ (run.node = "search_web" /\ run' # run)
            => /\ run'.node = "generate_content"
               /\ run'.search \in {"provider_raises", "malformed"}
                      => run'.citations = <<>>
       /\ (SearchFailed /\ run.node = "content_run" /\ run' # run)
            => /\ run'.node = "mark_completed"
               /\ run'.output.citations = <<>>
               /\ run'.llm_calls = 2]_vars

\* C18 witness: the search raised and the task was completed with no
\* citations
C18_Witness ==
    /\ RunDone
    /\ run.search = "malformed"
    /\ run.status = COMPLETED
    /\ run.output.citations = <<>>

\* the citations that carry a url, in order
WithUrl(citations) == SelectSeq(citations, LAMBDA c : c.url # "")
\* the entries of a references list in a text
Entries(content) == SelectSeq(content, LAMBDA l : l.index > 0)
\* the content handler has built its output
ContentBuilt == run.output.agent_name = "ContentAgent"

C20_PlanFallback ==
    (run.handler = "CodeAgent" /\ run.plan_reply = "text")
        => /\ run.plan.language = "python"
           /\ ~run.plan.tests_required
           /\ \/ run.node = "generate_code" /\ run.generate_calls = 0
              \/ run.node = "mark_failed" /\ run.generate_calls <= 1
              \/ run.node \in {"code_run", "mark_completed"} /\ run.generate_calls = 1
              \/ RunDone /\ run.generate_calls <= 1
           /\ (RunDone /\ run.generated # NoArtifact)
                 => (run.status = COMPLETED /\ run.generate_calls = 1)

\* C20 witness: a planner reply that is not JSON, one generation call, and
\* the task completed
C20_Witness ==
    /\ RunDone
    /\ run.plan_reply = "text"
    /\ run.plan = FallbackPlan
    /\ run.generate_calls = 1
    /\ run.status = COMPLETED

\* C21: whatever text the planning and generation calls answer with, the
\* code handler returns an output and the task completes: a run of the code
\* handler whose last Model Service call answered ends completed.
C21_MalformedNeverFails ==
    (RunDone /\ run.handler = "CodeAgent"
       /\ (run.plan_reply = "array" \/ run.generate_calls = 1))
        => run.status = COMPLETED

\* C22: in one worker process the event loop is created by the first
\* invocation, every later invocation runs on the loop of the invocation
\* before it unless it found that loop closed, and loops are created only
\* by the first invocation and by invocations that found the loop closed.
C22_LoopReused ==
    LET calls == proc.calls
        n == Len(calls)
    IN /\ n = 0 => proc.created = 0
       /\ n > 0 => /\ calls[1].found = "none"
                   /\ calls[1].loop = 1
                   /\ proc.created =
                        1 + Cardinality({i \in 2..n : calls[i].found = "closed"})
       /\ \A i \in 2..n :
             /\ calls[i].found # "none"
             /\ calls[i].found = "open" => calls[i].loop = calls[i - 1].loop
             /\ calls[i].found = "closed" => calls[i].loop \notin 1..calls[i - 1].loop

C22_Witness ==
    /\ Len(proc.calls) = 3
    /\ proc.calls[2].found = "closed"
    /\ proc.calls[3].found = "open"
    /\ proc.calls[3].loop = 2

\* C23: when the coroutine run on the loop raises, run_worker_coroutine
\* raises to its caller, the step leaves the cached loop as it was and
\* closes no loop, and the next invocation, unless the loop was closed
\* from outside in between, runs on the same loop.
C23_FailureKeepsLoop ==
    /\ [](\A i \in DOMAIN proc.calls :
            /\ proc.calls[i].coro = "exception" => proc.calls[i].outcome = "raised"
            /\ (/\ proc.calls[i].outcome = "raised"
                /\ i < Len(proc.calls)
                /\ proc.calls[i + 1].found # "closed")
                   => proc.calls[i + 1].loop = proc.calls[i].loop)
    /\ [][\A i \in DOMAIN proc.calls :
            (proc.calls[i].outcome = "running" /\ proc'.calls[i].coro = "exception")
               => (proc'.loop = proc.loop /\ proc'.closed = proc.closed)]_vars

C23_Witness ==
    \E i \in DOMAIN proc.calls :
        /\ proc.calls[i].outcome = "raised"
        /\ i < Len(proc.calls)
        /\ proc.calls[i + 1].found = "open"
        /\ proc.calls[i + 1].loop = proc.calls[i].loop

C25_FailsOpen ==
    \A r \in ReqIds :
        (_is_enabled(limiter) /\ limiter.reqs[r].fault \in {"client", "incr"})
            => (limiter.reqs[r].pc = "done" /\ limiter.reqs[r].outcome = "passed")

C25_Witness ==
    \E r \in ReqIds :
        LET q == limiter.reqs[r]
        IN /\ _is_enabled(limiter)
           /\ q.fault = "incr"
           /\ q.outcome = "passed"
           /\ limiter.counters[q.bucket][q.key] >= limiter.api_rate_limit_per_minute
           /\ \E o \in ReqIds : limiter.reqs[o].outcome = "rejected"

\* C26: an invocation for a task id that is not in the repository only
\* reads: it is never at a write, at the classifier, at a handler or at a
\* publish, the repository holds no task, AgentRun or message for that id
\* and its channel stays empty; and when the read answers, the invocation
\* returns in that step, leaving the repository and every channel as they
\* were.
C26_MissingTaskOnlyReads ==
    /\ [](/\ tasks[UnknownId] = NoTask
          /\ agent_runs[UnknownId] = 0
          /\ messages[UnknownId] = [user |-> 0, assistant |-> 0]
          /\ events[UnknownId] = <<>>
          /\ \A w \in Workers :
                tid[w] = UnknownId => pc[w] \in {"idle", "get_task", "returned", "raised"})
    /\ [][\A w \in Workers :
            (pc[w] = "get_task" /\ tid[w] = UnknownId /\ Steps(w))
               => /\ pc'[w] \in {"returned", "raised"}
                  /\ faults' = faults => pc'[w] = "returned"
                  /\ UNCHANGED <<repoVars, events>>]_vars

C26_Witness ==
    \E w \in Workers :
        /\ tid[w] = UnknownId
        /\ pc[w] = "returned"
        /\ \E t \in TaskIds : tasks[t] # NoTask

\* the messages published on the subscriber's channel since it subscribed
SinceSubscription ==
    SelectSeq(bus.published,
              LAMBDA m : m.n > bus.sub.since /\ m.channel = bus.sub.channel)

\* C27: what a subscriber bound to a task id has been sent, received
\* messages first and those still waiting on its connection after them, is
\* exactly the sequence of messages published on that task's channel since
\* it subscribed, in publication order; what it has received is at all
\* times, also after its disconnect, a prefix of that sequence, so no
\* message published before the subscription and no message of another
\* task ever reaches it.
C27_SubscriberGetsItsChannel ==
    /\ bus.sub.state = "new" => bus.sub.received = <<>> /\ bus.sub.inbox = <<>>
    /\ bus.sub.state = "subscribed"
          => bus.sub.received \o bus.sub.inbox = SinceSubscription
    /\ bus.sub.state = "closed" => IsPrefix(bus.sub.received, SinceSubscription)

C27_Witness ==
    /\ bus.sub.state = "closed"
    /\ Len(bus.sub.received) = 2
    /\ bus.sub.since = 1
    /\ bus.published[1].channel = bus.sub.channel
    /\ \E i \in 2..Len(bus.published) : bus.published[i].channel # bus.sub.channel

\* C28: a job is put into the queue only by the last step of an execute
\* request, which then answers with the new task id and status queued; at
\* that step the task is persisted with status queued, the one call on its
\* channel so far is the endpoint's publish of queued, and the job is the
\* only one for that id; an answered request's task is in the repository.
\* A request with a blank task is answered 422 in a step that leaves the
\* repository, the channels and the queue as they were.
C28_PersistPublishThenEnqueue ==
    /\ [](api = "responded"
            => /\ tasks[req] # NoTask
               /\ Len(events[req]) > 0
               /\ events[req][1] \in {Event(QUEUED, "api", ok) : ok \in BOOLEAN})
    /\ [][/\ \A t \in JobIds :
              (queue'[t] > queue[t])
                 => (/\ api = "delay" /\ api' = "responded" /\ t = req
                     /\ queue[t] = 0 /\ queue'[t] = 1
                     /\ tasks[t].status = QUEUED
                     /\ Statuses(events[t]) = <<QUEUED>>
                     /\ events[t][1].by = "api")
           /\ ((api # "responded" /\ api' = "responded")
                 => (queue'[req] = queue[req] + 1))
           /\ ((api # "rejected" /\ api' = "rejected")
                 => UNCHANGED <<repoVars, events, queue, req>>)]_vars

C28_Witness ==
    /\ api = "rejected"
    /\ tasks[req].status = QUEUED
    /\ queue[req] = 1
    /\ Statuses(Published(events[req])) = <<QUEUED>>

\* C29: a get_task of the id create_task returned, made before any
\* delivery of the task's job, yields a task with that id, the input text
\* and session create_task was given, status queued, and no result, error,
\* selected agent, started or completed timestamp; a get_task of an id no
\* create_task has returned yields nothing.
C29_CreateThenGet ==
    [][(repo'.got # repo.got) =>
         LET asked == repo'.got.asked
             fetched == repo'.got.task
         IN /\ (asked # repo.created.task.task_id) => (fetched = None)
            /\ (asked = repo.created.task.task_id /\ repo.runs = <<>>)
                  => (/\ fetched # None
                      /\ fetched.task_id = asked
                      /\ fetched.input_text = repo.created.text
                      /\ fetched.session_id = repo.created.session
                      /\ fetched.status = QUEUED
                      /\ fetched.result = Null /\ fetched.error = Null
                      /\ fetched.selected_agent = Null
                      /\ fetched.started_at = 0 /\ fetched.completed_at = 0)]_vars

C29_Witness ==
    /\ repo.got.asked = "t1"
    /\ repo.got.task # None
    /\ repo.got.task.input_text = " kod yaz "
    /\ repo.got.task.status = QUEUED
    /\ repo.runs = <<>>

\* the populated timestamps of a document are in order
Ordered(doc) ==
    /\ doc.created_at <= doc.queued_at
    /\ doc.started_at # 0 => doc.queued_at <= doc.started_at
    /\ doc.completed_at # 0 => doc.queued_at <= doc.completed_at
    /\ (doc.started_at # 0 /\ doc.completed_at # 0) => doc.started_at <= doc.completed_at

\* C30: in every reachable state the populated timestamps of every task
\* satisfy created <= queued <= started <= completed, whatever the
\* deliveries of its job.
C30_TimestampsOrdered ==
    \A t \in JobIds : repo.docs[t] # NoDocument => Ordered(repo.docs[t])

\* C31: the selected_agent the worker writes is null while the run has not
\* passed routing; once written it is a recognized handler name, the
\* classification of the run passed the routing test and names it, the
\* handler that was dispatched is the one of that name, and the output
\* the result is taken from carries that name.
C31_SelectedAgentIsRoutedHandler ==
    /\ run.node \in {"idle", "route_to_agent", "execute_agent"}
          => run.selected_agent = Null
    /\ run.selected_agent # Null
          => /\ run.selected_agent \in KnownAgents
             /\ RouteAccepts(run.classification)
             /\ run.selected_agent = run.classification.agent_name
             /\ run.selected_agent = run.handler
             /\ run.selected_agent = run.output.agent_name
             /\ run.status = COMPLETED

C31_Witness ==
    /\ run.selected_agent = "CodeAgent"
    /\ run.output.code_language # Null
    /\ run.status = COMPLETED

\* the nodes of the llm.chat calls made so far, in order
ChatNodes == [i \in DOMAIN run.chats |-> run.chats[i].node]
ChatFailed == \E i \in DOMAIN run.chats : ~run.chats[i].ok

\* C32: in one run no node makes its Model Service call twice; a call
\* that raised is the last call of the run, the run goes to mark_failed
\* and ends failed; a run that ends completed has made exactly the calls
\* of its path, once each.
C32_ChatCalledOnce ==
    /\ \A i \in DOMAIN run.chats : \A j \in DOMAIN run.chats :
          i # j => run.chats[i].node # run.chats[j].node
    /\ \A i \in DOMAIN run.chats : ~run.chats[i].ok => i = Len(run.chats)
    /\ ChatFailed => /\ run.node \in {"mark_failed", "done"}
                     /\ run.handler # Null => run.output = NoOutput
                     /\ RunDone => run.status = FAILED
    /\ (RunDone /\ run.status = COMPLETED)
          => ChatNodes = IF run.handler = "CodeAgent"
                         THEN <<"classify_task", "plan_task", "generate_code">>
                         ELSE <<"classify_task", "generate_content">>

C32_Witness ==
    /\ RunDone
    /\ run.status = FAILED
    /\ Len(run.chats) = 3
    /\ ~run.chats[3].ok

\* an invocation for task t has been delivered and has not ended
InProgressFor(t) ==
    \E w \in Workers : tid[w] = t /\ pc[w] \notin {"idle", "returned", "raised"}

\* C33: whenever no invocation for a task is in progress, the messages
\* collection holds an assistant message for the task iff the task's
\* status is completed, and it holds at most one.
C33_AssistantMessageIffCompleted ==
    \A t \in TaskIds :
        ~InProgressFor(t)
            => /\ (messages[t].assistant > 0) <=> (tasks[t].status = COMPLETED)
               /\ messages[t].assistant <= 1

\* positions of an invocation after its processing write and before its
\* first terminal write
BetweenWrites == {"mp_publish", "classify", "agent", "mc_update"}

\* w is terminated in this step
Terminated(w) == pc[w] # "idle" /\ pc'[w] = "idle" /\ faults' # faults

\* C34: a termination changes no task record, and a termination between
\* the processing write and the terminal write of the invocation leaves
\* the task processing with null result and null error.
C34_TerminationLeavesProcessing ==
    [][\A w \in Workers :
         Terminated(w)
            => /\ tasks' = tasks
               /\ pc[w] \in BetweenWrites
                     => /\ tasks[tid[w]].status = PROCESSING
                        /\ tasks[tid[w]].result = Null
                        /\ tasks[tid[w]].error = NoError]_vars

\* the router's reply is an object without agent_name or without
\* confidence (absent or null)
LacksField(reply) ==
    reply.kind = "object" /\ (reply.agent_name = Null \/ reply.conf_kind = "missing")

\* C35: for a router reply that lacks agent_name or confidence the
\* classification built from it does not pass the routing test, no
\* handler is dispatched, and the run ends failed.
C35_NoPassingDefault ==
    LacksField(run.reply)
        => /\ ~RouteAccepts(ParseClassification(run.reply).cls)
           /\ run.handler = Null
           /\ run.output = NoOutput
           /\ run.node \in {"route_to_agent", "mark_failed", "done"}
           /\ RunDone => run.status = FAILED

C35_Witness ==
    /\ RunDone
    /\ run.status = FAILED
    /\ run.reply.kind = "object"
    /\ run.reply.agent_name = "ContentAgent"
    /\ run.reply.conf_kind = "missing"
    /\ run.error_type = "UNKNOWN_TASK_TYPE"

\* the status the _publish_event call at position p reports
StatusAt(p) == IF p = "mp_publish" THEN PROCESSING
               ELSE IF p = "mc_publish" THEN COMPLETED
               ELSE FAILED

\* C36: an invocation comes to a _publish_event call only by the step in
\* which its own repository update has made the persisted status the one
\* the call reports (the endpoint: with the task persisted as queued), the
\* call it then makes reports exactly that status on the task's channel,
\* and nothing else is ever put on a channel.
C36_PublishAfterWrite ==
    [][/\ \A w \in Workers : \A p \in PublishPcs :
              /\ (pc[w] # p /\ pc'[w] = p)
                    => (tasks'[tid'[w]].status = StatusAt(p))
              /\ (pc[w] = p /\ pc'[w] # p)
                    => (\E ok \in BOOLEAN :
                          events' = [events EXCEPT ![tid[w]] =
                                       Append(@, Event(StatusAt(p), w, ok))])
       /\ (api # "publish" /\ api' = "publish") => (tasks'[req'].status = QUEUED)
       /\ (api = "publish" /\ api' # "publish")
             => (\E ok \in BOOLEAN :
                   events' = [events EXCEPT ![req] = Append(@, Event(QUEUED, "api", ok))])
       /\ (events' # events)
             => (\/ api = "publish" /\ api' # "publish"
                 \/ \E w \in Workers : pc[w] \in PublishPcs /\ pc'[w] # pc[w])]_vars

C36_Witness ==
    \E t \in TaskIds :
        /\ Statuses(Published(events[t])) = <<QUEUED, PROCESSING, PROCESSING, FAILED>>
        /\ tasks[t].status = PROCESSING

\* positions from which an exception of a handler, of mark_completed or of
\* the session update reaches the except clauses
AfterRouting == {"agent", "mc_update", "mc_publish", "mc_message", "session"}

\* C37: a recorded error has type UNKNOWN_TASK_TYPE iff it has no trace;
\* an invocation holds the routing error only from a step of the router
\* that dispatched no handler, every exception from a handler, from
\* mark_completed or from the session update is another one, and
\* mark_failed records the type of the exception the invocation holds,
\* with a trace unless it is the routing error.
C37_ErrorTellsSource ==
    /\ [](\A t \in TaskIds :
            tasks[t].error # NoError
               => (tasks[t].error.type = "UNKNOWN_TASK_TYPE" <=> ~tasks[t].error.stack))
    /\ [][\A w \in Workers :
            /\ (exc'[w] # exc[w] /\ exc'[w] = "UNKNOWN_TASK_TYPE")
                  => (pc[w] = "classify" /\ pc'[w] = "mf_update"
                      /\ cls'[w] = Null /\ out'[w] = Null)
            /\ (pc[w] \in AfterRouting /\ pc'[w] = "mf_update")
                  => (exc'[w] \notin {Null, "UNKNOWN_TASK_TYPE"})
            /\ (pc[w] = "mf_update" /\ pc'[w] # pc[w] /\ tasks' # tasks)
                  => (/\ tasks'[tid[w]].status = FAILED
                      /\ tasks'[tid[w]].error =
                            [type |-> exc[w], stack |-> exc[w] # "UNKNOWN_TASK_TYPE"])]_vars

C37_Witness ==
    \E t \in TaskIds :
        /\ tasks[t].status = FAILED
        /\ tasks[t].error = [type |-> "UNKNOWN_TASK_TYPE", stack |-> FALSE]
        /\ agent_runs[t] = 2
        /\ tasks[t].result # Null

\* C38: the repository never holds more than one AgentRun with run id
\* "<task id>:router" for a task, and no step removes an AgentRun.
C38_OneRouterRunPerTask ==
    /\ [](\A t \in JobIds : agent_runs[t] <= 1)
    /\ [][\A t \in JobIds : agent_runs'[t] >= agent_runs[t]]_vars

\* the requests the backend has counted under key k in minute bucket b
Counted(b, k) ==
    {r \in ReqIds : /\ limiter.reqs[r].current >= 1
                    /\ limiter.reqs[r].bucket = b
                    /\ limiter.reqs[r].key = k}

C40_ReferencesIdempotent ==
    ContentBuilt =>
        append_reference_section_if_missing(run.output.content, run.citations)
            = run.output.content

\* C40 witness: the first application appended a list of two entries, and
\* the built content is the one a second application is given
C40_Witness ==
    /\ ContentBuilt
    /\ ~HasReferencesSection(run.content)
    /\ Len(WithUrl(run.citations)) = 2
    /\ run.output.content # run.content
    /\ HasReferencesSection(run.output.content)


============================================================================
